---- MODULE Spec2Model ----
(***************************************************************************)
(* Story-Character-Extractor: the vector index lifecycle (VectorDB in      *)
(* vector_db.py) and the retrieval-extraction orchestrator (StoryProcessor *)
(* in process_stories.py), and the page that drives them (main in app.py), *)
(* which constructs a new StoryProcessor on every click.                   *)
(*                                                                         *)
(* The external collaborators are modelled by what the calls in the source *)
(* do: FAISS.save_local writes the directory db_path with the two files    *)
(* index.faiss (the flat vector index) and index.pkl (the docstore),       *)
(* FAISS.load_local reads both back, the embedding provider is a           *)
(* deterministic text -> vector function that may fail, and the generation *)
(* provider returns an arbitrary text or fails.                            *)
(***************************************************************************)
EXTENDS Integers, Sequences, FiniteSets

VARIABLES db, disk, embDim, promptFits, last

vars == <<db, disk, embDim, promptFits, last>>

\* ------------------------------------------------------------------ bounds

\* Longest list of uploaded files handed to compute_embeddings.
MaxFiles == 2

\* Largest k passed to VectorDB.similarity_search directly.
MaxK == 2

\* ------------------------------------------------------- program constants

ChunkSize == 1000
ChunkOverlap == 200
\* len(separator) for separator="\n"
SepLen == 1
\* search_kwargs={"k": 4}
RetrieverK == 4

\* Output dimensions the embedding provider of a process may have.
EmbeddingDims == {2, 3}

\* Python None for self.db and for an absent db_path: the empty tuple; a
\* present value v is <<v>>.
None == <<>>

\* ------------------------------------------------------------ small helpers

RECURSIVE SumSeq(_)
SumSeq(s) == IF s = <<>> THEN 0 ELSE Head(s) + SumSeq(Tail(s))

Min(a, b) == IF a < b THEN a ELSE b

RECURSIVE Flatten(_)
Flatten(ss) == IF ss = <<>> THEN <<>> ELSE Head(ss) \o Flatten(Tail(ss))

RECURSIVE SeqsUpTo(_,_)
SeqsUpTo(S, n) ==
    IF n = 0 THEN {<<>>}
    ELSE LET shorter == SeqsUpTo(S, n - 1)
         IN  shorter \cup {Append(s, x) : s \in shorter, x \in S}

\* ----------------------------------------------------------- uploaded files

\* An uploaded file: its name as the pieces around each ".txt", whether its
\* bytes decode as UTF-8, and its text as the lengths of its "\n"-separated
\* lines (0: an empty line).
TaleFile  == [name |-> <<"tale", ".txt">>,  utf8 |-> TRUE,  lines |-> <<300>>]
SagaFile  == [name |-> <<"saga", ".txt">>,  utf8 |-> TRUE,  lines |-> <<700, 0, 150, 400>>]
BlankFile == [name |-> <<"blank", ".txt">>, utf8 |-> TRUE,  lines |-> <<0>>]
BadFile   == [name |-> <<"bad", ".txt">>,   utf8 |-> FALSE, lines |-> <<>>]

SampleFiles == {TaleFile, SagaFile, BlankFile, BadFile}

\* An upload: at most MaxFiles different files, in the order they were added.
Uploads(S) ==
    {fs \in SeqsUpTo(S, MaxFiles) : \A i, j \in 1..Len(fs) : i # j => fs[i] # fs[j]}

\* Every upload of the sample files, and the uploads of readable stories only.
UploadLists == Uploads(SampleFiles)
StoryLists == Uploads({TaleFile, SagaFile})

\* file.name.replace(".txt", ""): every occurrence is removed.
TitleOf(name) == SelectSeq(name, LAMBDA piece : piece # ".txt")

\* The loop without its inner try: one undecodable file fails the batch.
ReadDocumentsFatal(files) ==
    IF \E i \in 1..Len(files) : ~files[i].utf8 THEN <<>>
    ELSE [i \in 1..Len(files) |->
            [page_content |-> files[i].lines, title |-> TitleOf(files[i].name)]]

\* The for loop of compute_embeddings: a file whose read().decode("utf-8")
\* raises is skipped, the others become Documents in upload order.
RECURSIVE ReadDocuments(_)
ReadDocuments(files) ==
    IF files = <<>> THEN <<>>
    ELSE LET f == Head(files)
             rest == ReadDocuments(Tail(files))
         IN  IF f.utf8
             THEN <<[page_content |-> f.lines, title |-> TitleOf(f.name)]>> \o rest
             ELSE rest

\* --------------------------------------------------- CharacterTextSplitter

\* The while loop of TextSplitter._merge_splits: drop leading splits of the closed chunk
\* until what is kept is at most the overlap and the next split fits.
RECURSIVE PopFront(_,_,_)
PopFront(current, total, len) ==
    IF \/ total > ChunkOverlap
       \/ /\ total + len + (IF Len(current) > 0 THEN SepLen ELSE 0) > ChunkSize
          /\ total > 0
    THEN PopFront(Tail(current),
                  total - (Head(current) + (IF Len(current) > 1 THEN SepLen ELSE 0)),
                  len)
    ELSE [current |-> current, total |-> total]

RECURSIVE merge_splits(_,_,_,_)
merge_splits(splits, docs, current, total) ==
    IF splits = <<>>
    THEN IF current # <<>> THEN Append(docs, current) ELSE docs
    ELSE LET d == Head(splits)
             close == /\ total + d + (IF Len(current) > 0 THEN SepLen ELSE 0) > ChunkSize
                      /\ Len(current) > 0
             emitted == IF close THEN Append(docs, current) ELSE docs
             kept == IF close THEN PopFront(current, total, d)
                     ELSE [current |-> current, total |-> total]
             cur2 == Append(kept.current, d)
         IN  merge_splits(Tail(splits), emitted, cur2,
                         kept.total + d + (IF Len(cur2) > 1 THEN SepLen ELSE 0))

\* split_text: split on the separator, drop the empty pieces, merge.
split_text(lines) ==
    merge_splits(SelectSeq(lines, LAMBDA l : l # 0), <<>>, <<>>, 0)

\* split_documents: the chunks of each document, in document order, each with
\* its document's metadata.
RECURSIVE split_documents(_)
split_documents(documents) ==
    IF documents = <<>> THEN <<>>
    ELSE LET doc == Head(documents)
             texts == split_text(doc.page_content)
         IN  [i \in 1..Len(texts) |-> [page_content |-> texts[i], title |-> doc.title]]
             \o split_documents(Tail(documents))

\* ------------------------------------------------------ embedding provider

Queries == {"Alice", "Bob"}

\* MistralAIEmbeddings.embed_documents on one text: a deterministic vector of
\* the provider's dimension.
embed_document(text, dim) ==
    LET h == SumSeq(text) \div 50
    IN  [i \in 1..dim |-> (h * i + i) % 7]

\* MistralAIEmbeddings.embed_query.
embed_query(query, dim) ==
    LET code == IF query = "Alice" THEN 4 ELSE 9
    IN  [i \in 1..dim |-> (code * i) % 7]

\* ------------------------------------------------------------ FAISS object

\* FAISS.from_documents: one vector per document in an IndexFlatL2 of the
\* provider's dimension, and the docstore with the documents by position.
from_documents(docs, dim) ==
    [index |-> [d |-> dim,
                vecs |-> [i \in 1..Len(docs) |-> embed_document(docs[i].page_content, dim)]],
     docs |-> docs]

\* faiss.write_index of a flat index: the dimension, the count and the
\* vectors as one contiguous array.
write_index(index) ==
    [d |-> index.d, ntotal |-> Len(index.vecs), xb |-> Flatten(index.vecs)]

\* faiss.read_index: the vectors are cut back out of the array.
read_index(data) ==
    [d |-> data.d,
     vecs |-> [i \in 1..data.ntotal |-> SubSeq(data.xb, (i - 1) * data.d + 1, i * data.d)]]

\* A file of the persisted directory (index.pkl cut short is the file as
\* open(..., "wb") leaves it, empty): absent, cut short by a failed or
\* interrupted write, or complete with its data.
NoIndexData == [d |-> 0, ntotal |-> 0, xb |-> <<>>]
AbsentFaiss == [st |-> "absent", data |-> NoIndexData]
PartialFaiss == [st |-> "partial", data |-> NoIndexData]
FullFaiss(index) == [st |-> "full", data |-> write_index(index)]
AbsentPkl == [st |-> "absent", data |-> <<>>]
PartialPkl == [st |-> "partial", data |-> <<>>]
FullPkl(docs) == [st |-> "full", data |-> docs]

\* How far FAISS.save_local gets: nothing done, the directory made and no
\* file opened, index.faiss cut short, index.faiss written and index.pkl
\* untouched, index.pkl opened and empty, done.
SaveCuts == {"none", "mkdir", "faiss_partial", "faiss_done", "pkl_partial", "done"}

\* FAISS.save_local(db_path) stopped at `cut`: mkdir(exist_ok=True), then
\* index.faiss is written in place, then index.pkl is opened "wb" and written.
save_local(diskIn, obj, cut) ==
    LET old == IF diskIn = None THEN [faiss |-> AbsentFaiss, pkl |-> AbsentPkl]
               ELSE diskIn[1]
    IN  CASE cut = "none" -> diskIn
          [] cut = "mkdir" -> <<old>>
          [] cut = "faiss_partial" -> <<[faiss |-> PartialFaiss, pkl |-> old.pkl]>>
          [] cut = "faiss_done" -> <<[faiss |-> FullFaiss(obj.index), pkl |-> old.pkl]>>
          [] cut = "pkl_partial" -> <<[faiss |-> FullFaiss(obj.index), pkl |-> PartialPkl]>>
          [] OTHER -> <<[faiss |-> FullFaiss(obj.index), pkl |-> FullPkl(obj.docs)]>>

\* FAISS.load_local: faiss.read_index raises RuntimeError on an index.faiss
\* that is missing or cut short; then open() raises FileNotFoundError when
\* index.pkl is missing and pickle.load raises EOFError on the empty
\* index.pkl; otherwise the object is rebuilt from the two files as they are
\* (neither the dimension nor the counts are compared with anything).
load_local(dir) ==
    IF dir.faiss.st # "full" THEN [exc |-> "RuntimeError", obj |-> None]
    ELSE IF dir.pkl.st = "absent" THEN [exc |-> "FileNotFoundError", obj |-> None]
    ELSE IF dir.pkl.st # "full" THEN [exc |-> "EOFError", obj |-> None]
    ELSE [exc |-> "", obj |-> <<[index |-> read_index(dir.faiss.data), docs |-> dir.pkl.data]>>]

\* Squared L2 distance of two vectors of the same dimension.
L2(a, b) == SumSeq([i \in 1..Len(a) |-> (a[i] - b[i]) * (a[i] - b[i])])

\* IndexFlatL2.search: the positions of the k nearest vectors, nearest first,
\* the earlier position first among equals; fewer when the index is smaller.
faiss_search(index, qvec, k) ==
    LET n == Len(index.vecs)
        dist(i) == L2(index.vecs[i], qvec)
        before(j, i) == dist(j) < dist(i) \/ (dist(j) = dist(i) /\ j < i)
        rank(i) == Cardinality({j \in 1..n : before(j, i)}) + 1
    IN  [r \in 1..Min(k, n) |-> CHOOSE i \in 1..n : rank(i) = r]

\* str() of a small natural number.
Digits == <<"0", "1", "2", "3", "4", "5", "6", "7", "8", "9">>
RECURSIVE IntStr(_)
IntStr(n) == IF n < 10 THEN <<Digits[n + 1]>> ELSE IntStr(n \div 10) \o <<Digits[(n % 10) + 1]>>

\* FAISS.similarity_search on the object: the index asserts the query's
\* dimension with a bare assert (str of the AssertionError is empty, no
\* part), each
\* hit is looked up in the docstore by its 0-based position, and the first
\* position the docstore lacks raises KeyError(position), whose str is the
\* position.
faiss_similarity_search(obj, qvec, k) ==
    IF Len(qvec) # obj.index.d
    THEN [exc |-> "AssertionError", emsg |-> <<>>, docs |-> <<>>]
    ELSE LET hits == faiss_search(obj.index, qvec, k)
             missing == {r \in 1..Len(hits) : hits[r] > Len(obj.docs)}
         IN  IF missing # {}
             THEN LET first == CHOOSE r \in missing : \A o \in missing : r <= o
                  IN  [exc |-> "KeyError", emsg |-> IntStr(hits[first] - 1), docs |-> <<>>]
             ELSE [exc |-> "", emsg |-> <<>>,
                   docs |-> [r \in 1..Len(hits) |-> obj.docs[hits[r]]]]

\* ---------------------------------------------------------------- VectorDB

\* What can happen to the save_local call of save_vector_db: it completes, it
\* raises an OSError after getting as far as `cut`, or the process dies there.
SaveOutcomes ==
    {[kind |-> "ok", cut |-> "done"]}
    \cup {[kind |-> "io", cut |-> c] : c \in SaveCuts \ {"done"}}
    \cup {[kind |-> "crash", cut |-> c] :
              c \in {"mkdir", "faiss_partial", "faiss_done", "pkl_partial"}}

\* VectorDB.save_vector_db.
save_vector_db(dbIn, diskIn, outcome) ==
    IF dbIn = None
    THEN [disk |-> diskIn, ret |-> FALSE, crashed |-> FALSE]
    ELSE [disk |-> save_local(diskIn, dbIn[1], outcome.cut),
          ret |-> outcome.kind = "ok",
          crashed |-> outcome.kind = "crash"]

\* What create_vector_db is handed: a str or a Document.
NoTitle == <<>>
StrItem(text) == [kind |-> "str", page_content |-> text, title |-> NoTitle]
DocumentItem(d) == [kind |-> "doc", page_content |-> d.page_content, title |-> d.title]
DocumentItems(docs) == [i \in 1..Len(docs) |-> DocumentItem(docs[i])]

\* VectorDB._ensure_documents: a str becomes a Document with that content
\* and no metadata (no title); a Document stays as it is.
ensure_documents(documents) ==
    [i \in 1..Len(documents) |->
        [page_content |-> documents[i].page_content,
         title |-> IF documents[i].kind = "doc" THEN documents[i].title ELSE NoTitle]]

\* create_vector_db saving before it assigns self.db: what is persisted is
\* the index that was in memory before the call.
create_vector_db_save_first(dbIn, diskIn, documents, dim, embOk, outcome) ==
    IF documents = <<>>
    THEN [db |-> dbIn, disk |-> diskIn, ret |-> FALSE, crashed |-> FALSE, calls |-> <<>>]
    ELSE IF ~embOk
    THEN [db |-> dbIn, disk |-> diskIn, ret |-> FALSE, crashed |-> FALSE,
          calls |-> <<"embed_documents">>]
    ELSE LET built == <<from_documents(ensure_documents(documents), dim)>>
             saved == save_vector_db(dbIn, diskIn, outcome)
         IN  [db |-> built, disk |-> saved.disk, ret |-> saved.ret,
              crashed |-> saved.crashed, calls |-> <<"embed_documents">>]

\* VectorDB.create_vector_db: self.db is assigned as soon as from_documents
\* returns, before save_vector_db is called.
create_vector_db(dbIn, diskIn, documents, dim, embOk, outcome) ==
    IF documents = <<>>
    THEN [db |-> dbIn, disk |-> diskIn, ret |-> FALSE, crashed |-> FALSE, calls |-> <<>>]
    ELSE IF ~embOk
    THEN [db |-> dbIn, disk |-> diskIn, ret |-> FALSE, crashed |-> FALSE,
          calls |-> <<"embed_documents">>]
    ELSE LET built == <<from_documents(ensure_documents(documents), dim)>>
             saved == save_vector_db(built, diskIn, outcome)
         IN  [db |-> built, disk |-> saved.disk, ret |-> saved.ret,
              crashed |-> saved.crashed, calls |-> <<"embed_documents">>]

\* VectorDB.load_vector_db: self.db is assigned only when load_local returns.
load_vector_db(dbIn, diskIn) ==
    IF diskIn = None
    THEN [db |-> dbIn, ret |-> FALSE, exc |-> "FileNotFoundError"]
    ELSE LET r == load_local(diskIn[1])
         IN  IF r.exc # ""
             THEN [db |-> dbIn, ret |-> FALSE, exc |-> r.exc]
             ELSE [db |-> r.obj, ret |-> TRUE, exc |-> ""]

\* VectorDB.similarity_search: raises ValueError when self.db is None,
\* otherwise whatever the embedding of the query or the search raises.
similarity_search(dbIn, query, k, dim, embOk) ==
    IF dbIn = None
    THEN [exc |-> "ValueError", docs |-> <<>>, calls |-> <<>>]
    ELSE IF ~embOk
    THEN [exc |-> "EmbeddingError", docs |-> <<>>, calls |-> <<"embed_query">>]
    ELSE LET r == faiss_similarity_search(dbIn[1], embed_query(query, dim), k)
         IN  [exc |-> r.exc, docs |-> r.docs, calls |-> <<"embed_query">>]

\* os.remove(self.db_path): what exists at db_path is the directory that
\* save_local made, and os.remove of a directory raises (IsADirectoryError,
\* an OSError) and removes nothing.
os_remove(diskIn) == [exc |-> "IsADirectoryError", disk |-> diskIn]

\* VectorDB.clear_vector_db: self.db = None is reached only when os.remove
\* did not raise.
clear_vector_db(dbIn, diskIn) ==
    IF diskIn = None
    THEN [db |-> None, disk |-> diskIn, ret |-> TRUE, exc |-> ""]
    ELSE LET r == os_remove(diskIn)
         IN  IF r.exc # ""
             THEN [db |-> dbIn, disk |-> r.disk, ret |-> FALSE, exc |-> r.exc]
             ELSE [db |-> None, disk |-> r.disk, ret |-> TRUE, exc |-> ""]

\* -------------------------------------------------------------------- JSON

\* A parsed JSON value: t is its Python type, s the pieces of a string (or
\* the literal of a number, True, False, None), items the elements of a list
\* (k empty) or the items of a dict.
JStr(parts) == [t |-> "str", s |-> parts, items |-> <<>>]
JNum(lit) == [t |-> "num", s |-> <<lit>>, items |-> <<>>]
JLit(lit) == [t |-> "lit", s |-> <<lit>>, items |-> <<>>]
JList(elems) == [t |-> "list", s |-> <<>>, items |-> elems]
JDict(items) == [t |-> "dict", s |-> <<>>, items |-> items]
JNone == JLit("null")
Item(k, v) == [k |-> k, v |-> v]

\* d[k] = v on a dict's items: an existing key keeps its place.
DictPut(items, k, v) ==
    IF \E i \in 1..Len(items) : items[i].k = k
    THEN [i \in 1..Len(items) |-> IF items[i].k = k THEN Item(k, v) ELSE items[i]]
    ELSE Append(items, Item(k, v))

HasKey(v, k) == v.t = "dict" /\ \E i \in 1..Len(v.items) : v.items[i].k = k
Get(v, k) == v.items[CHOOSE i \in 1..Len(v.items) : v.items[i].k = k].v

\* A token of the generation provider's text.
Tok(c, s) == [c |-> c, s |-> s]
Punct(c) == Tok(c, "")
Str(s) == Tok("str", s)

ParseFail == [ok |-> FALSE, v |-> JNone, next |-> 0]

RECURSIVE ParseValue(_,_), ParseElements(_,_,_), ParseItems(_,_,_)
ParseValue(toks, i) ==
    IF i > Len(toks) THEN ParseFail
    ELSE LET t == toks[i]
             closes(c) == i + 1 <= Len(toks) /\ toks[i + 1].c = c
         IN  CASE t.c = "str" -> [ok |-> TRUE, v |-> JStr(<<t.s>>), next |-> i + 1]
               [] t.c = "num" -> [ok |-> TRUE, v |-> JNum(t.s), next |-> i + 1]
               [] t.c = "lit" -> [ok |-> TRUE, v |-> JLit(t.s), next |-> i + 1]
               [] t.c = "[" -> IF closes("]")
                               THEN [ok |-> TRUE, v |-> JList(<<>>), next |-> i + 2]
                               ELSE ParseElements(toks, i + 1, <<>>)
               [] t.c = "{" -> IF closes("}")
                               THEN [ok |-> TRUE, v |-> JDict(<<>>), next |-> i + 2]
                               ELSE ParseItems(toks, i + 1, <<>>)
               [] OTHER -> ParseFail

ParseElements(toks, i, acc) ==
    LET r == ParseValue(toks, i)
    IN  IF ~r.ok \/ r.next > Len(toks) THEN ParseFail
        ELSE LET acc2 == Append(acc, Item("", r.v))
             IN  CASE toks[r.next].c = "]" ->
                        [ok |-> TRUE, v |-> JList(acc2), next |-> r.next + 1]
                   [] toks[r.next].c = "," -> ParseElements(toks, r.next + 1, acc2)
                   [] OTHER -> ParseFail

ParseItems(toks, i, acc) ==
    IF i + 1 > Len(toks) \/ toks[i].c # "str" \/ toks[i + 1].c # ":" THEN ParseFail
    ELSE LET r == ParseValue(toks, i + 2)
         IN  IF ~r.ok \/ r.next > Len(toks) THEN ParseFail
             ELSE LET acc2 == DictPut(acc, toks[i].s, r.v)
                  IN  CASE toks[r.next].c = "}" ->
                             [ok |-> TRUE, v |-> JDict(acc2), next |-> r.next + 1]
                        [] toks[r.next].c = "," -> ParseItems(toks, r.next + 1, acc2)
                        [] OTHER -> ParseFail

\* json.loads: one value and nothing after it, else JSONDecodeError.
json_loads(toks) ==
    LET r == ParseValue(toks, 1)
    IN  IF r.ok /\ r.next = Len(toks) + 1
        THEN [ok |-> TRUE, v |-> r.v]
        ELSE [ok |-> FALSE, v |-> JNone]

\* ----------------------------------------------------- generation provider

\* "key": value
Pair(k, v) == <<Str(k), Punct(":")>> \o v
Comma == <<Punct(",")>>
Braces(body) == <<Punct("{")>> \o body \o <<Punct("}")>>
Brackets(body) == <<Punct("[")>> \o body \o <<Punct("]")>>

\* The format the prompt template asks for, filled in.
ValidResponse ==
    Braces(Pair("name", <<Str("Alice")>>) \o Comma
           \o Pair("storyTitle", <<Str("Tale")>>) \o Comma
           \o Pair("summary", <<Str("Helped Bob escape.")>>) \o Comma
           \o Pair("relations",
                   Brackets(Braces(Pair("name", <<Str("Bob")>>) \o Comma
                                   \o Pair("relation", <<Str("ally")>>)))) \o Comma
           \o Pair("characterType", <<Str("protagonist")>>))
NotFoundResponse == Braces(Pair("error", <<Str("Character not found in the stories")>>))
\* Prose around the JSON, and a completion cut off mid-object: not JSON.
ProseResponse == <<Tok("junk", "Here is the JSON:")>> \o ValidResponse
TruncatedResponse == <<Punct("{")>> \o Pair("name", <<Str("Alice")>>) \o Comma
\* Valid JSON of another shape.
StringResponse == <<Str("Alice")>>
NumberResponse == <<Tok("num", "42")>>
ListResponse == Brackets(<<Str("Alice")>>)
MissingResponse == Braces(Pair("name", <<Str("Alice")>>))

Responses ==
    {ValidResponse, NotFoundResponse, ProseResponse, TruncatedResponse,
     StringResponse, NumberResponse, ListResponse, MissingResponse}

\* The generation provider's call: a text, or an exception.
NoGen == [ok |-> FALSE, text |-> <<>>]
GenOutcomes == {NoGen} \cup {[ok |-> TRUE, text |-> t] : t \in Responses}

\* ---------------------------------------------------------- StoryProcessor

ErrorDict(parts) == JDict(<<Item("error", JStr(parts))>>)

\* StoryProcessor.compute_embeddings.
compute_embeddings(dbIn, diskIn, files, dim, embOk, outcome) ==
    LET unchanged(parts) ==
            [db |-> dbIn, disk |-> diskIn, msg |-> parts, crashed |-> FALSE,
             calls |-> <<>>, built |-> FALSE]
        documents == ReadDocuments(files)
    IN  IF files = <<>>
        THEN unchanged(<<"Error computing embeddings: ", "No files provided">>)
        ELSE IF documents = <<>>
        THEN unchanged(<<"Error computing embeddings: ",
                         "No valid documents found in provided files">>)
        ELSE LET texts == split_documents(documents)
                 r == create_vector_db(dbIn, diskIn, DocumentItems(texts), dim, embOk, outcome)
             IN  [db |-> r.db, disk |-> r.disk,
                  msg |-> IF r.ret THEN <<"Embeddings computed and stored successfully">>
                          ELSE <<"Error storing embeddings">>,
                  crashed |-> r.crashed, calls |-> r.calls, built |-> TRUE]

\* The body of the try of get_character_info: what it returns, or the
\* exception that leaves it with the parts of its str(): the message of the
\* ValueError raised here, the provider's text for a provider failure, and
\* for the retrieval what faiss_similarity_search gives. qa_chain.run
\* retrieves first and then runs the combine chain on the documents and the
\* question; the prompt declares the input variables context and character,
\* and a RetrievalQA that does not feed `character` (fits FALSE) raises
\* ValueError for the missing key before the generation provider is called.
get_character_info_try(dbIn, diskIn, name, dim, embOk, gen, fits) ==
    LET l == IF dbIn = None THEN load_vector_db(dbIn, diskIn)
             ELSE [db |-> dbIn, ret |-> TRUE, exc |-> ""]
        out(d, exc, emsg, result, calls, g) ==
            [db |-> d, exc |-> exc, emsg |-> emsg, result |-> result, calls |-> calls,
             loadTried |-> dbIn = None, loaded |-> dbIn = None /\ l.ret, gen |-> g]
    IN  IF ~l.ret
        THEN out(l.db, "ValueError", <<"Failed to load vector database">>, JNone, <<>>, NoGen)
        ELSE IF ~embOk
        THEN out(l.db, "EmbeddingError", <<"EmbeddingError">>, JNone, <<"embed_query">>, NoGen)
        ELSE LET r == faiss_similarity_search(l.db[1], embed_query(name, dim), RetrieverK)
             IN  IF r.exc # ""
                 THEN out(l.db, r.exc, r.emsg, JNone, <<"embed_query">>, NoGen)
                 ELSE IF ~fits
                 THEN out(l.db, "ValueError", <<"Missing some input keys: {'character'}">>,
                          JNone, <<"embed_query">>, NoGen)
                 ELSE IF ~gen.ok
                 THEN out(l.db, "GenerationError", <<"GenerationError">>, JNone,
                          <<"embed_query", "complete">>, gen)
                 ELSE LET j == json_loads(gen.text)
                      IN  out(l.db, "", <<>>,
                              IF j.ok THEN j.v
                              ELSE ErrorDict(<<"Failed to parse character information">>),
                              <<"embed_query", "complete">>, gen)

\* get_character_info catching ValueError only: any other exception reaches
\* the caller.
get_character_info_except_value_error(dbIn, diskIn, name, dim, embOk, gen, fits) ==
    LET b == get_character_info_try(dbIn, diskIn, name, dim, embOk, gen, fits)
        caught == b.exc \in {"", "ValueError"}
    IN  [db |-> b.db, raised |-> ~caught, exc |-> b.exc,
         result |-> IF ~caught THEN JNone
                    ELSE IF b.exc # ""
                    THEN ErrorDict(<<"Error getting character information: ">> \o b.emsg)
                    ELSE b.result,
         calls |-> b.calls, loadTried |-> b.loadTried, loaded |-> b.loaded, gen |-> b.gen]

\* get_character_info asking the generation provider a second time when the
\* first text does not parse.
get_character_info_retry(dbIn, diskIn, name, dim, embOk, gen, fits) ==
    LET b == get_character_info_try(dbIn, diskIn, name, dim, embOk, gen, fits)
        again == b.exc = "" /\ ~json_loads(b.gen.text).ok
    IN  [db |-> b.db, raised |-> FALSE, exc |-> b.exc,
         result |-> IF b.exc # ""
                    THEN ErrorDict(<<"Error getting character information: ">> \o b.emsg)
                    ELSE b.result,
         calls |-> IF again THEN Append(b.calls, "complete") ELSE b.calls,
         loadTried |-> b.loadTried, loaded |-> b.loaded, gen |-> b.gen]

\* StoryProcessor.get_character_info: except Exception turns whatever left
\* the try into an error dict.
get_character_info(dbIn, diskIn, name, dim, embOk, gen, fits) ==
    LET b == get_character_info_try(dbIn, diskIn, name, dim, embOk, gen, fits)
    IN  [db |-> b.db, raised |-> FALSE, exc |-> b.exc,
         result |-> IF b.exc # ""
                    THEN ErrorDict(<<"Error getting character information: ">> \o b.emsg)
                    ELSE b.result,
         calls |-> b.calls, loadTried |-> b.loadTried, loaded |-> b.loaded, gen |-> b.gen]

\* StoryProcessor.clean_up.
clean_up(dbIn, diskIn) == clear_vector_db(dbIn, diskIn)

\* ------------------------------------------------------------------- state

\* What the last step did: the handler, its inputs and what it returned.
\* hadDb: the processor held an index when the handler began; dbKept and
\* diskKept: the handler left the processor's index and the directory at
\* db_path as it found them. For a new process, and for a load_vector_db
\* that is its first call: persisted, the last call of the process before
\* it built or saved its index and returned success; dropped, the index
\* that process then held in memory; sameProvider, the new process's
\* embedding provider has the dimension of the old one's.
Blank ==
    [op |-> "init", ok |-> TRUE, raised |-> FALSE, exc |-> "", msg |-> <<>>,
     files |-> <<>>, query |-> "", k |-> 0, docs |-> <<>>, result |-> JNone,
     calls |-> <<>>, hadDb |-> FALSE, loadTried |-> FALSE, loaded |-> FALSE,
     built |-> FALSE, gen |-> NoGen, repeat |-> FALSE, dbKept |-> TRUE,
     diskKept |-> TRUE, persisted |-> FALSE, dropped |-> None,
     sameProvider |-> FALSE]

\* No processor yet, nothing at db_path; the process has its embedding
\* provider and its RetrievalQA.
Init ==
    /\ db = None
    /\ disk = None
    /\ embDim \in EmbeddingDims
    /\ promptFits \in BOOLEAN
    /\ last = Blank

\* compute_embeddings(uploaded_files) on a processor whose index is dbIn,
\* for an upload drawn from `lists`. The outcome of a provider or disk call
\* that the handler never reaches is not drawn. When the process dies inside
\* save_local nothing is returned and the next processor starts with no
\* index in memory.
compute_embeddings_call(dbIn, lists, outcomes) ==
    \E files \in lists, embOk \in BOOLEAN, outcome \in outcomes :
        \E r \in {compute_embeddings(dbIn, disk, files, embDim, embOk, outcome)} :
            /\ r.calls = <<>> => embOk
            /\ ~(r.calls # <<>> /\ embOk) => outcome.kind = "ok"
            /\ db' = IF r.crashed THEN None ELSE r.db
            /\ disk' = r.disk
            /\ last' = IF r.crashed
                       THEN [Blank EXCEPT !.op = "crash", !.ok = FALSE, !.files = files]
                       ELSE [Blank EXCEPT !.op = "build",
                                          !.ok = (r.msg = <<"Embeddings computed and stored successfully">>),
                                          !.msg = r.msg, !.files = files, !.calls = r.calls,
                                          !.hadDb = (dbIn # None), !.built = r.built,
                                          !.dbKept = (r.db = dbIn),
                                          !.diskKept = (r.disk = disk)]
            /\ UNCHANGED <<embDim, promptFits>>

\* get_character_info(character_name) on a processor whose index is dbIn,
\* with what the generation provider does drawn from `gens`.
get_character_info_call(dbIn, gens) ==
    \E name \in Queries, embOk \in BOOLEAN, gen \in gens :
        \E r \in {get_character_info(dbIn, disk, name, embDim, embOk, gen, promptFits)} :
            /\ r.calls = <<>> => embOk
            /\ Len(r.calls) < 2 => gen = NoGen
            /\ db' = r.db
            /\ last' = [Blank EXCEPT !.op = "query", !.ok = (r.exc = ""), !.raised = r.raised,
                                     !.exc = r.exc, !.query = name, !.result = r.result,
                                     !.calls = r.calls, !.hadDb = (dbIn # None),
                                     !.loadTried = r.loadTried, !.loaded = r.loaded,
                                     !.gen = r.gen,
                                     !.repeat = (last.op = "query" /\ last.query = name),
                                     !.dbKept = (r.db = dbIn)]
            /\ UNCHANGED <<disk, embDim, promptFits>>

\* clean_up() on a processor whose index is dbIn.
clean_up_call(dbIn) ==
    \E r \in {clean_up(dbIn, disk)} :
        /\ db' = r.db
        /\ disk' = r.disk
        /\ last' = [Blank EXCEPT !.op = "clear", !.ok = r.ret, !.exc = r.exc,
                                 !.hadDb = (dbIn # None), !.dbKept = (r.db = dbIn),
                                 !.diskKept = (r.disk = disk)]
        /\ UNCHANGED <<embDim, promptFits>>

\* ------------------------------------------------------ the application
\* Every click reruns main(): initialize_processor() constructs a new
\* StoryProcessor, whose index is None, and the handler of the clicked
\* button runs on it. db is the index that processor holds when the run
\* ends; the next run does not see it.

\* The "Process Stories" button, which the page shows only when at least
\* one file is uploaded (if uploaded_files).
ProcessStories(lists, outcomes) ==
    compute_embeddings_call(None, {files \in lists : files # <<>>}, outcomes)

\* The "Get Character Info" button, enabled when a name is typed.
GetCharacterInfoButton == get_character_info_call(None, GenOutcomes)

\* The "Clear All Data" button.
ClearAllData == clean_up_call(None)

\* The process ends and a new one starts: no processor and no index in
\* memory, the directory at db_path stays, and the new process has the
\* embedding provider and the RetrievalQA that are installed when it starts.
Restart ==
    \E dim \in EmbeddingDims, fits \in BOOLEAN :
        /\ db' = None
        /\ embDim' = dim
        /\ promptFits' = fits
        /\ LET persisted == last.op \in {"build", "create", "save"} /\ last.ok
           IN  last' = [Blank EXCEPT !.op = "restart", !.persisted = persisted,
                                     !.dropped = IF persisted THEN db ELSE None,
                                     !.sameProvider = (dim = embDim)]
        /\ UNCHANGED disk

\* The application: clicks on the three buttons, with uploads of readable
\* stories, and restarts.
Next ==
    \/ ProcessStories(StoryLists, SaveOutcomes)
    \/ GetCharacterInfoButton
    \/ ClearAllData
    \/ Restart

Spec == Init /\ [][Next]_vars

\* ------------------------------------------- one StoryProcessor object
\* The public methods of StoryProcessor and of its VectorDB called one
\* after another on the same object, as a caller that keeps the processor
\* does: the index a call leaves in memory is the one the next call finds.

\* StoryProcessor.compute_embeddings.
ComputeEmbeddings(lists, outcomes) == compute_embeddings_call(db, lists, outcomes)

\* StoryProcessor.get_character_info.
GetCharacterInfo(gens) == get_character_info_call(db, gens)

\* StoryProcessor.clean_up.
CleanUp == clean_up_call(db)

\* What a caller hands to create_vector_db: nothing, one text, or the chunks
\* of a story.
DirectDocuments ==
    {<<>>, <<StrItem(TaleFile.lines)>>,
     DocumentItems(split_documents(ReadDocuments(<<SagaFile>>)))}

\* VectorDB.create_vector_db called with documents of the caller.
CreateVectorDb ==
    \E documents \in DirectDocuments, embOk \in BOOLEAN, outcome \in SaveOutcomes :
        \E r \in {create_vector_db(db, disk, documents, embDim, embOk, outcome)} :
            /\ r.calls = <<>> => embOk
            /\ ~(r.calls # <<>> /\ embOk) => outcome.kind = "ok"
            /\ db' = IF r.crashed THEN None ELSE r.db
            /\ disk' = r.disk
            /\ last' = IF r.crashed
                       THEN [Blank EXCEPT !.op = "crash", !.ok = FALSE]
                       ELSE [Blank EXCEPT !.op = "create", !.ok = r.ret,
                                          !.calls = r.calls, !.hadDb = (db # None),
                                          !.dbKept = (r.db = db),
                                          !.diskKept = (r.disk = disk)]
            /\ UNCHANGED <<embDim, promptFits>>

\* VectorDB.save_vector_db called on the index in memory.
SaveVectorDb ==
    \E outcome \in SaveOutcomes :
        \E r \in {save_vector_db(db, disk, outcome)} :
            /\ db = None => outcome.kind = "ok"
            /\ db' = IF r.crashed THEN None ELSE db
            /\ disk' = r.disk
            /\ last' = IF r.crashed
                       THEN [Blank EXCEPT !.op = "crash", !.ok = FALSE]
                       ELSE [Blank EXCEPT !.op = "save", !.ok = r.ret,
                                          !.hadDb = (db # None),
                                          !.diskKept = (r.disk = disk)]
            /\ UNCHANGED <<embDim, promptFits>>

\* VectorDB.similarity_search.
SimilaritySearch ==
    \E query \in Queries, k \in 1..MaxK, embOk \in BOOLEAN :
        \E r \in {similarity_search(db, query, k, embDim, embOk)} :
            /\ r.calls = <<>> => embOk
            /\ last' = [Blank EXCEPT !.op = "search", !.ok = (r.exc = ""),
                                     !.raised = (r.exc # ""), !.exc = r.exc,
                                     !.query = query, !.k = k, !.docs = r.docs,
                                     !.calls = r.calls, !.hadDb = (db # None)]
            /\ UNCHANGED <<db, disk, embDim, promptFits>>

\* VectorDB.load_vector_db.
LoadVectorDb ==
    \E r \in {load_vector_db(db, disk)} :
        /\ db' = r.db
        /\ last' = [Blank EXCEPT !.op = "load", !.ok = r.ret, !.exc = r.exc,
                                 !.hadDb = (db # None), !.loadTried = TRUE,
                                 !.loaded = r.ret, !.dbKept = (r.db = db),
                                 !.persisted = (last.op = "restart" /\ last.persisted),
                                 !.dropped = IF last.op = "restart" THEN last.dropped
                                             ELSE None,
                                 !.sameProvider = (last.op = "restart" /\ last.sameProvider)]
        /\ UNCHANGED <<disk, embDim, promptFits>>

\* The uploads the index of one processor is built from: one story, and
\* two stories of four chunks.
IndexLists == {<<TaleFile>>, <<SagaFile, TaleFile>>}

\* The generation provider as far as the index is concerned: it fails or it
\* answers.
PlainGenOutcomes == {NoGen, [ok |-> TRUE, text |-> ValidResponse]}

\* The lifecycle of the index of one processor: every public method that
\* reads or changes it, and a new processor in a new process.
NextObject ==
    \/ ComputeEmbeddings(IndexLists, SaveOutcomes)
    \/ GetCharacterInfo(PlainGenOutcomes)
    \/ CleanUp
    \/ CreateVectorDb
    \/ SaveVectorDb
    \/ SimilaritySearch
    \/ LoadVectorDb
    \/ Restart

SpecObject == Init /\ [][NextObject]_vars

\* The build path of one processor: compute_embeddings on every upload of
\* the sample files, the empty one included, in a process that stays
\* alive: save_local completes, or raises before it wrote anything or
\* between the two files.
UploadOutcomes ==
    {o \in SaveOutcomes : o.kind # "crash" /\ o.cut \in {"none", "faiss_done", "done"}}

NextUpload ==
    \/ ComputeEmbeddings(UploadLists, UploadOutcomes)
    \/ CleanUp

SpecUpload == Init /\ [][NextUpload]_vars

\* The query path of one processor: get_character_info in every state of
\* its index.
NextQuery ==
    \/ ComputeEmbeddings(IndexLists, SaveOutcomes)
    \/ GetCharacterInfo(GenOutcomes)
    \/ CleanUp
    \/ Restart

SpecQuery == Init /\ [][NextQuery]_vars

\* ------------------------------------------------------------- properties

\* The directory save_local leaves when it completes on the object.
PersistOf(obj) == save_local(None, obj, "done")

\* The index a build from the upload makes in a process of dimension dim.
BuildOf(files, dim) == from_documents(split_documents(ReadDocuments(files)), dim)

\* The directory holds one complete persisted index: some build's vectors
\* with that same build's documents.
CompletePersist(d) ==
    /\ d # None
    /\ d[1].faiss.st = "full"
    /\ d[1].pkl.st = "full"
    /\ \E dim \in EmbeddingDims : d = PersistOf(from_documents(d[1].pkl.data, dim))

IsStr(v) == v.t = "str"
CharacterTypes == {<<"protagonist">>, <<"antagonist">>, <<"supporting">>}

\* The Character Info Result shape.
IsCharacterInfo(v) ==
    /\ v.t = "dict"
    /\ \A key \in {"name", "storyTitle", "summary", "characterType", "relations"} : HasKey(v, key)
    /\ \A key \in {"name", "storyTitle", "summary", "characterType"} : IsStr(Get(v, key))
    /\ Get(v, "characterType").s \in CharacterTypes
    /\ Get(v, "relations").t = "list"
    /\ \A i \in 1..Len(Get(v, "relations").items) :
          LET rel == Get(v, "relations").items[i].v
          IN  /\ HasKey(rel, "name") /\ IsStr(Get(rel, "name"))
              /\ HasKey(rel, "relation") /\ IsStr(Get(rel, "relation"))

\* The error marker: a dict with the key "error".
IsErrorMarker(v) == HasKey(v, "error") /\ IsStr(Get(v, "error"))

ParseErrorResult == ErrorDict(<<"Failed to parse character information">>)

\* How many times the last call invoked the generation provider.
GenerationCalls == Len(SelectSeq(last.calls, LAMBDA c : c = "complete"))

\* An index was available to the last query: in memory when it began, or
\* loaded by it.
IndexAvailable == last.hadDb \/ last.loaded

\* The exceptions the retrieval step of a query can end with.
RetrievalErrors == {"EmbeddingError", "AssertionError", "KeyError"}

\* C1: a clear immediately followed by a search fails with NotInitialized
\* (the ValueError of similarity_search), in every state of the lifecycle.
C1_ClearThenSearchNotInitialized ==
    [][(last.op = "clear" /\ last'.op = "search") => last'.exc = "ValueError"]_vars

\* C2: clear succeeds from every state: when it has returned it reports
\* success, nothing is persisted at db_path and no index is in memory.
C2_ClearSucceeds ==
    last.op = "clear" => (last.ok /\ disk = None /\ db = None)

\* C3: what get_character_info returns is a Character Info Result or an
\* error marker, whatever text the generation provider returned.
C3_ResultHasShape ==
    last.op = "query" => (IsCharacterInfo(last.result) \/ IsErrorMarker(last.result))

\* C4: get_character_info never raises: every failure (no index and the
\* load fails, the retrieval fails, the generation fails) gives an error
\* marker on that call, and generation text that is not JSON gives the
\* parse-error result.
C4_NeverRaises ==
    last.op = "query" =>
        /\ ~last.raised
        /\ (~IndexAvailable \/ last.exc # "") => IsErrorMarker(last.result)
        /\ (last.gen.ok /\ last.gen.text \in {ProseResponse, TruncatedResponse})
              => last.result = ParseErrorResult

C4_Witness ==
    /\ last.op = "query"
    /\ last.gen.text = TruncatedResponse
    /\ last.result = ParseErrorResult

\* C5 as stated: a query invokes the generation provider exactly once when
\* an index is available and not at all when none is.
C5_OncePerAvailableIndex ==
    last.op = "query" => GenerationCalls = (IF IndexAvailable THEN 1 ELSE 0)

\* C5 amended: a query attempts a load exactly when no index is in memory;
\* with no index available it calls no provider; with an index available it
\* embeds the query once and invokes the generation provider exactly once
\* when the retrieval succeeded and the chain accepted the prompt's input
\* keys, and not at all when the retrieval failed or the chain rejected
\* them; a query repeating the one before it does the same again.
C5_OncePerRetrieval ==
    last.op = "query" =>
        /\ last.loadTried = ~last.hadDb
        /\ ~IndexAvailable => last.calls = <<>>
        /\ (IndexAvailable /\ (last.exc \in RetrievalErrors \/ ~promptFits))
              => last.calls = <<"embed_query">>
        /\ (IndexAvailable /\ last.exc \notin RetrievalErrors /\ promptFits)
              => last.calls = <<"embed_query", "complete">>

C5_Witness ==
    /\ last.op = "query"
    /\ last.repeat
    /\ last.hadDb
    /\ last.calls = <<"embed_query", "complete">>
    /\ last.result = ParseErrorResult

\* C6: a load that succeeds in a fresh process found one complete persisted
\* index at db_path, never a partially written or mixed old/new one.
C6_LoadOnlyCompletePersist ==
    (last.loaded /\ ~last.hadDb) => CompletePersist(disk)

\* C7: load fails with NotFound (FileNotFoundError) when db_path is absent,
\* fails when a file is malformed or the stored dimension differs from the
\* provider's, leaves the in-memory index as it was when it fails, and
\* replaces it when it succeeds.
C7_LoadChecksAndReplaces ==
    [][last'.op = "load" =>
          /\ disk = None => (~last'.ok /\ last'.exc = "FileNotFoundError")
          /\ (disk # None /\ (disk[1].faiss.st # "full" \/ disk[1].pkl.st # "full"))
                => ~last'.ok
          /\ (disk # None /\ disk[1].faiss.st = "full" /\ disk[1].faiss.data.d # embDim)
                => ~last'.ok
          /\ ~last'.ok => db' = db
          /\ last'.ok => db' # None]_vars

\* C8 as stated: an upload in which at least one file decodes is built and
\* persisted from the decodable files with the success message; any other
\* upload gives a failure message and no build.
C8_DecodableUploadSucceeds ==
    last.op = "build" =>
        LET dec == SelectSeq(last.files, LAMBDA f : f.utf8)
        IN  IF dec # <<>>
            THEN /\ last.ok
                 /\ db = <<BuildOf(dec, embDim)>>
                 /\ disk = PersistOf(db[1])
            ELSE ~last.ok /\ ~last.built

\* C8 amended: an undecodable file is skipped: with at least one decodable
\* file a build is attempted from exactly the decodable files in upload
\* order, and when it reports success the index in memory and at db_path is
\* the one built from their chunks; when it does not succeed (no chunk, the
\* embedding or the save failed) the message is "Error storing embeddings";
\* with no file or no decodable file a failure message is returned and no
\* build is attempted.
C8_UploadSkipsUndecodable ==
    last.op = "build" =>
        LET dec == SelectSeq(last.files, LAMBDA f : f.utf8)
            docs == split_documents([i \in 1..Len(dec) |->
                        [page_content |-> dec[i].lines, title |-> TitleOf(dec[i].name)]])
        IN  /\ last.built = (dec # <<>>)
            /\ last.ok => /\ docs # <<>>
                          /\ db = <<from_documents(docs, embDim)>>
                          /\ disk = PersistOf(db[1])
                          /\ last.msg = <<"Embeddings computed and stored successfully">>
            /\ (last.built /\ ~last.ok) => last.msg = <<"Error storing embeddings">>
            /\ ~last.built => /\ ~last.ok
                              /\ last.calls = <<>>
                              /\ last.msg[1] = "Error computing embeddings: "

C8_Witness ==
    /\ last.op = "build"
    /\ last.ok
    /\ last.files = <<BadFile, SagaFile>>
    /\ Len(db[1].docs) = Len(split_text(SagaFile.lines))

\* The k of a search: below, at and above the number of chunks.
SearchKs == 1..(MaxK + RetrieverK)

\* C9: after a build or save that reported success, a load in a fresh
\* process with the same embedding provider succeeds, and for every query
\* and k similarity_search on what it loaded gives what similarity_search
\* gave on the index the process that persisted held in memory: the same
\* chunks in the same order.
C9_RoundTripSearch ==
    (last.op = "load" /\ last.persisted /\ last.sameProvider) =>
        /\ last.ok
        /\ \A q \in Queries, k \in SearchKs :
              similarity_search(db, q, k, embDim, TRUE)
                  = similarity_search(last.dropped, q, k, embDim, TRUE)

C9_Witness ==
    /\ last.op = "load"
    /\ last.persisted
    /\ last.sameProvider
    /\ last.ok
    /\ last.dropped = <<BuildOf(<<SagaFile, TaleFile>>, embDim)>>
    /\ similarity_search(db, "Alice", MaxK, embDim, TRUE).docs # <<>>

\* C10: a build that reports failure leaves the index in memory and the
\* persisted index exactly as they were before the call.
C10_FailedBuildChangesNothing ==
    (last.op = "build" /\ ~last.ok) => (last.dbKept /\ last.diskKept)

====
